---- MODULE Spec2Model ----
(***************************************************************************)
(* A model of gkeep2dynalist: the delivery client of dynalist.go           *)
(* (AddToDynalist, its retry loop, the process-wide RetryStats and         *)
(* calculateBackoff), the walk over the takeout folder and processMessage  *)
(* of main.go, and processLabels and shortenFilename of keepnote.go.       *)
(*                                                                         *)
(* Time is counted in milliseconds.  A jitter factor is counted in         *)
(* thousandths (500 is 0.5, 1499 is 1.499), so that 0.5 + rand.Float64()   *)
(* ranges over 500..1499.                                                  *)
(***************************************************************************)
EXTENDS Integers, Sequences, FiniteSets, TLC

(***************************************************************************)
(* Program constants (dynalist.go, const block).                           *)
(***************************************************************************)
\* a variant of maxRetries that allows one retry more
maxRetriesOneMore == 5 + 1
maxRetries == 5
minDelay == 2000
maxDelay == 60000
minPause == 1000
maxPause == 3000

(***************************************************************************)
(* Bounds of the model.                                                    *)
(***************************************************************************)
\* number of AddToDynalist calls made in one run
MaxCalls == 2
\* largest argument calculateBackoff is applied to in BackoffSpec
MaxRetryArg == 12
\* largest number of attachments of a note
MaxAtt == 2
\* largest number of labels processLabels is applied to in LabelSpec
MaxLabels == 2

\* the longest label name processLabels is applied to
MaxNameLen == 2

VARIABLES
    pc,          \* position of the single thread
    retryCount,  \* AddToDynalist's local retryCount
    lastErr,     \* AddToDynalist's local lastErr
    Stats,       \* the global RetryStats
    ret,         \* value returned by the most recent AddToDynalist call
    calls,       \* history: number of AddToDynalist calls made so far
    trace,       \* history: sleeps and network attempts of the current call
    slept,       \* history: duration of the most recent time.Sleep
    Stats0,      \* history: Stats when the current call was entered
    cbRetry,     \* calculateBackoff's argument (BackoffSpec)
    cbJitter,    \* the jitter factor drawn by calculateBackoff (BackoffSpec)
    cbDelay,     \* calculateBackoff's result for cbRetry, or -1
    cbPrev,      \* calculateBackoff's result for cbRetry - 1, or -1
    r2,          \* main's r2Client is not nil
    cur,         \* the file the walk passed to its callback most recently
    note,        \* the note processMessage is working on
    todo,        \* the attachments processMessage's loop has not reached yet
    links,       \* processMessage's attachmentLinks
    attLog,      \* history: for each attachment reached, whether it got a link
    payload,     \* the content and note arguments of the AddToDynalist call
    runErr,      \* the value processKeepFolder returned
    fnUsed,      \* history: shortenFilename was called for the current note
    lblIn,       \* processLabels' argument (LabelSpec)
    lblOut,      \* processLabels' result, or NotRun
    fnIn,        \* shortenFilename's argument (FilenameSpec)
    fnOut        \* shortenFilename's result, or NotRun

vars == <<pc, retryCount, lastErr, Stats, ret, calls, trace, slept, Stats0,
          cbRetry, cbJitter, cbDelay, cbPrev,
          r2, cur, note, todo, links, attLog, payload, runErr, fnUsed,
          lblIn, lblOut, fnIn, fnOut>>

clientVars == <<pc, retryCount, lastErr, Stats, ret, calls, trace, slept, Stats0>>
cbVars == <<cbRetry, cbJitter, cbDelay, cbPrev>>
orchVars == <<r2, cur, note, todo, links, attLog, payload, runErr, fnUsed>>
lblVars == <<lblIn, lblOut>>
fnVars == <<fnIn, fnOut>>
pureVars == <<cbVars, lblVars, fnVars>>

(***************************************************************************)
(* Errors.  An error value is its message and, to tell the errors of two   *)
(* attempts apart, the number of the attempt that produced it (0 when it   *)
(* was not produced by an attempt).                                        *)
(***************************************************************************)
Nil == [msg |-> "", at |-> 0]
Pending == [msg |-> "<running>", at |-> 0]
Err(m, n) == [msg |-> m, at |-> n]

ErrMarshal == "failed to marshal request"
ErrCreate == "failed to create request"
ErrSend == "failed to send request"
ErrDecode == "failed to decode response"

\* DynalistResponse: the fields AddToDynalist reads
Codes == {"Ok", "TooManyRequests", "InvalidToken"}
Messages == {"", "quota"}
Responses == [Code : Codes, Message : Messages]

\* the error built from a response whose code is not Ok
ApiErrText(resp) ==
    IF resp.Message # ""
      THEN "dynalist API error: " \o resp.Message
      ELSE "dynalist API error: " \o resp.Code

\* the value of the global Stats at process start
ZeroStats ==
    [TotalCalls |-> 0, SuccessfulCalls |-> 0, FailedCalls |-> 0, Retries |-> 0,
     LastError |-> "", LastStatus |-> ""]

(***************************************************************************)
(* History helpers.                                                        *)
(***************************************************************************)
\* The events of a trace are the sleeps ("pause", "backoff") and the network
\* attempts, each named by the class of its outcome: "transient" for a
\* transport failure, a decode failure or a TooManyRequests response,
\* "otherErr" for a response with any other code but Ok, "ok" for Ok.
AttemptKinds == {"transient", "otherErr", "ok"}
SleepKinds == {"pause", "backoff"}

Requests(tr) == SelectSeq(tr, LAMBDA e : e \in AttemptKinds)
Attempts == Len(Requests(trace))
Last(s) == s[Len(s)]

(***************************************************************************)
(* calculateBackoff                                                        *)
(***************************************************************************)
RECURSIVE Pow2(_)
Pow2(n) == IF n = 0 THEN 1 ELSE 2 * Pow2(n - 1)

\* a variant of Cap that forgets the cap
CapMissing(backoff) == backoff

\* the cap of calculateBackoff
Cap(backoff) == IF backoff > maxDelay THEN maxDelay ELSE backoff

\* a variant of calculateBackoff that starts from the exponent 0
calculateBackoffFromZero(retry, jitter) ==
    Cap(((minDelay \div 1000) * Pow2(IF retry > 0 THEN retry - 1 ELSE 0)) * jitter)

\* minDelay * 2^retry * jitter, capped at maxDelay.  minDelay is a whole
\* number of seconds and jitter a number of thousandths, so the product is a
\* whole number of milliseconds.
calculateBackoff(retry, jitter) ==
    Cap(((minDelay \div 1000) * Pow2(retry)) * jitter)

\* every value of 0.5 + rand.Float64(), in thousandths
AllJitters == 500..1499
\* the values of it drawn inside AddToDynalist
Jitters == {500, 1000, 1499}
\* the values of rand.Int63n(maxPause - minPause) drawn
PauseOffsets == {0, 1000, (maxPause - minPause) - 1}

(***************************************************************************)
(* Strings.  A string is the sequence of its characters, each a string of  *)
(* length one, so that the string functions of keepnote.go and main.go can *)
(* be computed as the code computes them.                                  *)
(***************************************************************************)
RECURSIVE Join(_, _)
\* strings.Join(elems, sep)
Join(elems, sep) ==
    IF elems = << >> THEN << >>
    ELSE IF Len(elems) = 1 THEN elems[1]
    ELSE elems[1] \o sep \o Join(Tail(elems), sep)

\* strings.HasPrefix(s, prefix)
HasPrefix(s, prefix) ==
    Len(s) >= Len(prefix) /\ SubSeq(s, 1, Len(prefix)) = prefix

\* strings.HasSuffix(s, suffix)
HasSuffix(s, suffix) ==
    Len(s) >= Len(suffix) /\ SubSeq(s, Len(s) - Len(suffix) + 1, Len(s)) = suffix

\* the positions at which sub occurs in s
Occurrences(s, sub) ==
    {i \in 1..(Len(s) - Len(sub) + 1) : SubSeq(s, i, i + Len(sub) - 1) = sub}

\* strings.Split(s, sep)[0] for a separator that is not empty: the part of s
\* before the first occurrence of sep, and s when there is none
BeforeFirst(s, sep) ==
    LET occ == Occurrences(s, sep) IN
    IF occ = {} THEN s
    ELSE SubSeq(s, 1, (CHOOSE i \in occ : \A j \in occ : i <= j) - 1)

\* strings.TrimSuffix(s, suffix)
TrimSuffix(s, suffix) ==
    IF HasSuffix(s, suffix) THEN SubSeq(s, 1, Len(s) - Len(suffix)) ELSE s

\* strings.Trim(s, cutset), cutset given as a set of characters
Trim(s, cutset) ==
    LET keep == {i \in 1..Len(s) : s[i] \notin cutset} IN
    IF keep = {} THEN << >>
    ELSE SubSeq(s, CHOOSE i \in keep : \A j \in keep : i <= j,
                   CHOOSE i \in keep : \A j \in keep : i >= j)

\* filepath.Base(path) of a path that is not empty and does not end in a
\* slash: what follows its last slash
Base(path) ==
    LET sl == {i \in 1..Len(path) : path[i] = "/"} IN
    IF sl = {} THEN path
    ELSE SubSeq(path, (CHOOSE i \in sl : \A j \in sl : i >= j) + 1, Len(path))

\* filepath.Ext(path): the suffix of the last element of path that starts at
\* its last dot, and the empty string when it has no dot
Ext(path) ==
    LET name == Base(path)
        dots == {i \in 1..Len(name) : name[i] = "."}
    IN  IF dots = {} THEN << >>
        ELSE SubSeq(name, CHOOSE i \in dots : \A j \in dots : i >= j, Len(name))

(***************************************************************************)
(* keepnote.go                                                             *)
(***************************************************************************)
\* a variant of HashChar that keeps the space
HashCharKeepsSpace(c) == c

\* strings.ReplaceAll(name, " ", "_"), character by character
HashChar(c) == IF c = " " THEN "_" ELSE c

\* the hashtag of one label
Hashtag(name) == <<"#">> \o [i \in 1..Len(name) |-> HashChar(name[i])]

\* processLabels: labels is the sequence of the labels' names
processLabels(labels) ==
    Join([i \in 1..Len(labels) |-> Hashtag(labels[i])], <<" ">>)

\* the three strings shortenFilename splits its argument at
TimestampPattern1 ==
    <<"\\", "d", "{", "4", "}", "-", "\\", "d", "{", "2", "}", "-", "\\",
      "d", "{", "2", "}", "T", "\\", "d", "{", "2", "}", "_", "\\", "d",
      "{", "2", "}", "_", "\\", "d", "{", "2", "}">>
TimestampPattern2 ==
    <<"\\", "d", "{", "4", "}", "-", "\\", "d", "{", "2", "}", "-", "\\",
      "d", "{", "2", "}">>
TimestampPattern3 ==
    <<"\\", "d", "{", "2", "}", "_", "\\", "d", "{", "2", "}", "_", "\\",
      "d", "{", "2", "}">>
timestampPatterns == <<TimestampPattern1, TimestampPattern2, TimestampPattern3>>

RECURSIVE SplitAtAll(_, _)
\* for _, pattern := range patterns { base = strings.Split(base, pattern)[0] }
SplitAtAll(base, patterns) ==
    IF patterns = << >> THEN base
    ELSE SplitAtAll(BeforeFirst(base, Head(patterns)), Tail(patterns))

\* "Shorten to 15 characters max"
Shorten(base) ==
    IF Len(base) > 15 THEN SubSeq(base, 1, 15) \o <<".", ".", ".">> ELSE base

\* shortenFilename
shortenFilename(filename) ==
    LET name == Base(filename)
        ext == Ext(filename)
        base == TrimSuffix(name, ext)
    IN  Shorten(Trim(SplitAtAll(base, timestampPatterns), {".", "_", "-", " "}))

(***************************************************************************)
(* AddToDynalist                                                           *)
(***************************************************************************)
\* a variant of PacingPauses that forgets to add minPause
PacingPausesNoMin == PauseOffsets

\* the durations the pacing sleep at the entry of AddToDynalist can take
PacingPauses == {minPause + o : o \in PauseOffsets}

\* the condition of the retry loop
LoopCond(rc) == rc <= maxRetries

\* variants of Exhausted: one that never breaks, one that breaks a retry late
ExhaustedNever(rc) == FALSE
ExhaustedLate(rc) == rc > maxRetries + 1

\* "If we've reached max retries, break"
Exhausted(rc) == rc > maxRetries

\* variants of IsTerminal: one that allows a third attempt, one that does not
\* look at the code
IsTerminalLate(code, rc) == code # "TooManyRequests" /\ rc > 2
IsTerminalAnyCode(code, rc) == rc >= 2

\* "If not a rate limit error, we might not want to retry"
IsTerminal(code, rc) == code # "TooManyRequests" /\ rc >= 2

\* a variant of RecordError that leaves Stats.LastError as it was
RecordErrorForgotten(s, e) == s

\* Stats.LastError = lastErr.Error()
RecordError(s, e) == [s EXCEPT !.LastError = e.msg]

\* a variant of CountRetry that forgets the increment
CountRetryForgotten(s) == s

\* Stats.Retries++
CountRetry(s) == [s EXCEPT !.Retries = @ + 1]

\* a variant of SuccessStats that leaves LastStatus as it was
SuccessStatsKeepsStatus(s) == [s EXCEPT !.SuccessfulCalls = @ + 1]

\* the statements of the success branch
SuccessStats(s) == [s EXCEPT !.SuccessfulCalls = @ + 1, !.LastStatus = "Success"]

\* a variant of FailedStats that starts the statistics anew
FailedStatsReset(s) ==
    [s EXCEPT !.TotalCalls = 0, !.SuccessfulCalls = 0, !.Retries = 0,
              !.FailedCalls = 1, !.LastStatus = "Failed"]

\* the statements after the loop
FailedStats(s) == [s EXCEPT !.FailedCalls = @ + 1, !.LastStatus = "Failed"]

\* the kind of attempt a response is
KindOf(resp) ==
    IF resp.Code = "Ok" THEN "ok"
    ELSE IF resp.Code = "TooManyRequests" THEN "transient" ELSE "otherErr"

\* AddToDynalist is called (processMessage); the thread is at its first line.
Invoke ==
    /\ pc = "ready"
    /\ calls < MaxCalls
    /\ calls' = calls + 1
    /\ pc' = "idle"
    /\ ret' = Pending
    /\ trace' = << >>
    /\ Stats0' = Stats
    /\ retryCount' = 0
    /\ lastErr' = Nil
    /\ UNCHANGED <<Stats, slept>>
    /\ UNCHANGED <<pureVars, orchVars>>

\* the random pause before the API call
PacingSleep ==
    /\ pc = "idle"
    /\ \E d \in PacingPauses : slept' = d
    /\ trace' = Append(trace, "pause")
    /\ pc' = "marshal"
    /\ UNCHANGED <<retryCount, lastErr, Stats, ret, calls, Stats0>>
    /\ UNCHANGED <<pureVars, orchVars>>

\* leaving the loop: the statements after it, and return lastErr
FailReturn(s, e) ==
    /\ Stats' = FailedStats(s)
    /\ ret' = e
    /\ pc' = "done"

\* json.Marshal of the request body, then the initialisation of the retry
\* variables, Stats.TotalCalls++ and the first test of the loop condition
Marshal ==
    /\ pc = "marshal"
    /\ \E ok \in BOOLEAN :
         IF ok
           THEN /\ lastErr' = Nil
                /\ retryCount' = 0
                /\ IF LoopCond(0)
                     THEN /\ Stats' = [Stats EXCEPT !.TotalCalls = @ + 1]
                          /\ pc' = "loop"
                          /\ ret' = ret
                     ELSE FailReturn([Stats EXCEPT !.TotalCalls = @ + 1], Nil)
           ELSE /\ ret' = Err(ErrMarshal, 0)
                /\ pc' = "done"
                /\ UNCHANGED <<lastErr, retryCount, Stats>>
    /\ UNCHANGED <<calls, trace, slept, Stats0>>
    /\ UNCHANGED <<pureVars, orchVars>>

\* a failed attempt that may be retried: count it, then break when the
\* retries are used up, and otherwise go on to the backoff sleep
RetryOrBreak(s, e) ==
    /\ retryCount' = retryCount + 1
    /\ lastErr' = e
    /\ IF Exhausted(retryCount + 1)
         THEN FailReturn(CountRetry(s), e)
         ELSE /\ Stats' = CountRetry(s)
              /\ pc' = "backoff"
              /\ ret' = ret

\* http.NewRequest fails: return without touching Stats
CreateFails ==
    /\ ret' = Err(ErrCreate, 0)
    /\ pc' = "done"
    /\ UNCHANGED <<retryCount, lastErr, Stats, trace>>

\* client.Do fails
SendFails ==
    LET e == Err(ErrSend, Attempts + 1) IN
    /\ trace' = Append(trace, "transient")
    /\ RetryOrBreak(RecordError(Stats, e), e)

\* the response body does not decode
DecodeFails ==
    LET e == Err(ErrDecode, Attempts + 1) IN
    /\ trace' = Append(trace, "transient")
    /\ RetryOrBreak(RecordError(Stats, e), e)

\* a response was decoded
Responded(resp) ==
    /\ trace' = Append(trace, KindOf(resp))
    /\ IF resp.Code = "Ok"
         THEN /\ Stats' = SuccessStats(Stats)
              /\ ret' = Nil
              /\ pc' = "done"
              /\ UNCHANGED <<retryCount, lastErr>>
         ELSE LET e == Err(ApiErrText(resp), Attempts + 1)
                  s == RecordError(Stats, e)
              IN  IF IsTerminal(resp.Code, retryCount)
                    THEN /\ lastErr' = e
                         /\ retryCount' = retryCount
                         /\ FailReturn(s, e)
                    ELSE RetryOrBreak(s, e)

\* one pass of the body of the retry loop, up to the break, the return or
\* the start of the backoff sleep
Iterate ==
    /\ pc = "loop"
    /\ \/ CreateFails
       \/ SendFails
       \/ DecodeFails
       \/ \E resp \in Responses : Responded(resp)
    /\ UNCHANGED <<calls, slept, Stats0>>
    /\ UNCHANGED <<pureVars, orchVars>>

\* a variant of Backoff that goes on to the next pass without sleeping
BackoffSkipsSleep ==
    /\ pc = "backoff"
    /\ pc' = "loop"
    /\ UNCHANGED <<retryCount, lastErr, Stats, ret, calls, trace, slept, Stats0>>
    /\ UNCHANGED <<pureVars, orchVars>>

\* delay := calculateBackoff(retryCount); time.Sleep(delay); continue, which
\* tests the loop condition again
Backoff ==
    /\ pc = "backoff"
    /\ \E j \in Jitters : slept' = calculateBackoff(retryCount, j)
    /\ trace' = Append(trace, "backoff")
    /\ IF LoopCond(retryCount)
         THEN /\ pc' = "loop"
              /\ UNCHANGED <<Stats, ret>>
         ELSE FailReturn(Stats, lastErr)
    /\ UNCHANGED <<retryCount, lastErr, calls, Stats0>>
    /\ UNCHANGED <<pureVars, orchVars>>

(***************************************************************************)
(* main.go: processKeepFolder and processMessage                           *)
(***************************************************************************)
NoNote == [title |-> << >>, body |-> << >>, labels |-> << >>, atts |-> << >>,
           archived |-> FALSE]
NoFile == [kind |-> "none", path |-> << >>]
NoPayload == [content |-> << >>, note |-> << >>]
NotRun == <<"<not run>">>

ErrWalk == "walk error"
ErrParse == "failed to unmarshal JSON"

\* the title prefix of processMessage
TitlePrefix == <<"g", "k", "e", "e", "p", ":", " ">>
\* "\n\nAttachments:\n"
AttachmentsHeader ==
    <<"\n", "\n", "A", "t", "t", "a", "c", "h", "m", "e", "n", "t", "s", ":", "\n">>

\* label names and texts of notes
LabelWork == <<"W", "o", "r", "k">>
LabelAB == <<"A", " ", "B">>
TitleT == <<"T">>
BodyB == <<"B">>

\* the paths of a note's attachments, in the order of the note
AttNames == <<"a", "b", "c", "d">>
AttPaths(n) == [i \in 1..n |-> <<AttNames[i]>>]

\* paths of JSON files of the takeout folder
PathShort == <<"K", "e", "e", "p", "/", "n", ".", "j", "s", "o", "n">>
PathStamped ==
    <<"K", "e", "e", "p", "/", "2", "0", "2", "4", "-", "0", "3", "-", "2", "5", "T", "1", "9", "_", "2", "9", "_", "2", "1", ".", "4", "4", "6", "+", "0", "1", "_", "0", "0", ".", "j", "s", "o", "n">>

\* the notes the walk of Spec finds in JSON files
WalkNotes ==
    {[title |-> TitleT, body |-> BodyB, labels |-> <<LabelWork>>,
      atts |-> AttPaths(1), archived |-> a] : a \in BOOLEAN}

\* the notes processMessage is applied to in MessageSpec
MsgNotes ==
    [title : {<< >>, TitleT},
     body : {<< >>, BodyB},
     labels : {<< >>, <<LabelWork>>, <<LabelWork, LabelAB>>},
     atts : {AttPaths(n) : n \in 0..MaxAtt},
     archived : {FALSE}]
MsgPaths == {PathShort, PathStamped}

\* the URL r2Client.UploadLocalFile returns for a file it uploaded
UploadUrl(path) == <<"u", ":">> \o path

\* fmt.Sprintf("[%s](%s)", attachment.FilePath, r2URL)
Link(path, url) == <<"[">> \o path \o <<"]", "(">> \o url \o <<")">>

\* a variant of Archived that skips nothing
ArchivedIgnored(n) == FALSE

\* "Ignore archived notes"
Archived(n) == n.archived

\* a variant of CallbackResult that hands the error to filepath.Walk
CallbackResultPropagates(err) == err

\* what the walk's callback returns after a note failed with err: it logs the
\* error and returns nil
CallbackResult(err) == Nil

\* a variant of AfterSkipped that gives up the attachments that follow
AfterSkippedBreaks(rest) == << >>

\* "continue": the attachments that follow one that failed are still reached
AfterSkipped(rest) == rest

\* a variant of NoteContent that puts the hashtags before the attachments
NoteContentTagsFirst(body, lnks, hashtags) ==
    body
    \o (IF hashtags # << >> THEN <<"\n", "\n">> \o hashtags ELSE << >>)
    \o (IF Len(lnks) > 0 THEN AttachmentsHeader \o Join(lnks, <<"\n">>) ELSE << >>)

\* "Format the note content"
NoteContent(body, lnks, hashtags) ==
    body
    \o (IF Len(lnks) > 0 THEN AttachmentsHeader \o Join(lnks, <<"\n">>) ELSE << >>)
    \o (IF hashtags # << >> THEN <<"\n", "\n">> \o hashtags ELSE << >>)

\* a variant of UsesFilename that always takes the filename
UsesFilenameAlways(n) == TRUE

\* if title == ""
UsesFilename(n) == n.title = << >>

\* a variant of Title that appends the hashtags
TitleWithHashtags(n, path) ==
    LET t == TitlePrefix \o (IF UsesFilename(n) THEN shortenFilename(path) ELSE n.title)
        h == processLabels(n.labels)
    IN  IF h # << >> THEN t \o <<" ">> \o h ELSE t

\* "Set the title"
Title(n, path) ==
    TitlePrefix \o (IF UsesFilename(n) THEN shortenFilename(path) ELSE n.title)

\* processMessage is entered for note n: its attachment loop is run when
\* r2Client is not nil and the note has attachments
EnterMessage(n) ==
    /\ note' = n
    /\ todo' = IF r2 /\ Len(n.atts) > 0 THEN n.atts ELSE << >>
    /\ links' = << >>
    /\ attLog' = << >>
    /\ fnUsed' = FALSE
    /\ payload' = NoPayload

\* the walk's callback returns r: filepath.Walk goes on when r is nil and
\* returns r, as processKeepFolder then does, when it is not
WalkOn(r) ==
    IF r = Nil
      THEN pc' = "walk" /\ runErr' = runErr
      ELSE pc' = "exit" /\ runErr' = r

\* filepath.Walk passes one more file to the callback, which runs up to its
\* return or up to the call of processMessage
VisitFile ==
    /\ pc = "walk"
    /\ \/ /\ cur' = [kind |-> "walkErr", path |-> PathShort]
          /\ WalkOn(Err(ErrWalk, 0))
          /\ UNCHANGED <<note, todo, links, attLog, payload, fnUsed>>
       \/ /\ \E k \in {"dir", "other"} : cur' = [kind |-> k, path |-> PathShort]
          /\ WalkOn(Nil)
          /\ UNCHANGED <<note, todo, links, attLog, payload, fnUsed>>
       \/ /\ cur' = [kind |-> "bad", path |-> PathShort]
          /\ WalkOn(CallbackResult(Err(ErrParse, 0)))
          /\ UNCHANGED <<note, todo, links, attLog, payload, fnUsed>>
       \/ \E n \in WalkNotes :
            IF Archived(n)
              THEN /\ cur' = [kind |-> IF n.archived THEN "archived" ELSE "note",
                              path |-> PathShort]
                   /\ WalkOn(Nil)
                   /\ UNCHANGED <<note, todo, links, attLog, payload, fnUsed>>
              ELSE /\ calls < MaxCalls
                   /\ cur' = [kind |-> IF n.archived THEN "archived" ELSE "note",
                              path |-> PathShort]
                   /\ EnterMessage(n)
                   /\ pc' = "message"
                   /\ runErr' = runErr
    /\ UNCHANGED <<retryCount, lastErr, Stats, ret, calls, trace, slept, Stats0, r2>>
    /\ UNCHANGED pureVars

\* one pass of processMessage's loop over the attachments: findAttachmentFile,
\* then r2Client.UploadLocalFile, then the link
AttachStep ==
    /\ pc = "message"
    /\ todo # << >>
    /\ \E found \in BOOLEAN, uploaded \in BOOLEAN :
         IF found /\ uploaded
           THEN /\ links' = Append(links, Link(Head(todo), UploadUrl(Head(todo))))
                /\ attLog' = Append(attLog, TRUE)
                /\ todo' = Tail(todo)
           ELSE /\ links' = links
                /\ attLog' = Append(attLog, FALSE)
                /\ todo' = AfterSkipped(Tail(todo))
    /\ UNCHANGED <<r2, cur, note, payload, runErr, fnUsed>>
    /\ UNCHANGED clientVars
    /\ UNCHANGED pureVars

\* processMessage after its loop: the hashtags, the note content and the
\* title, up to the call of AddToDynalist
Format ==
    /\ pc = "message"
    /\ todo = << >>
    /\ payload' = [content |-> Title(note, cur.path),
                   note |-> NoteContent(note.body, links, processLabels(note.labels))]
    /\ fnUsed' = UsesFilename(note)
    /\ pc' = "ready"
    /\ UNCHANGED <<r2, cur, note, todo, links, attLog, runErr>>
    /\ UNCHANGED <<retryCount, lastErr, Stats, ret, calls, trace, slept, Stats0>>
    /\ UNCHANGED pureVars

\* a variant of Return that submits a note again when its delivery failed
ReturnResubmits ==
    /\ pc = "done"
    /\ IF ret = Nil THEN WalkOn(Nil) ELSE (pc' = "ready" /\ runErr' = runErr)
    /\ trace' = << >>
    /\ retryCount' = 0
    /\ lastErr' = Nil
    /\ UNCHANGED <<r2, cur, todo, note, links, attLog, payload, fnUsed>>
    /\ UNCHANGED <<Stats, ret, calls, slept, Stats0>>
    /\ UNCHANGED pureVars

\* AddToDynalist has returned: processMessage returns its error, the callback
\* logs it and returns; the locals of both functions are gone
Return ==
    /\ pc = "done"
    /\ WalkOn(IF ret = Nil THEN Nil ELSE CallbackResult(ret))
    /\ trace' = << >>
    /\ retryCount' = 0
    /\ lastErr' = Nil
    /\ note' = NoNote
    /\ links' = << >>
    /\ attLog' = << >>
    /\ payload' = NoPayload
    /\ fnUsed' = FALSE
    /\ UNCHANGED <<r2, cur, todo>>
    /\ UNCHANGED <<Stats, ret, calls, slept, Stats0>>
    /\ UNCHANGED pureVars

\* filepath.Walk has passed every file: processKeepFolder returns nil
WalkEnd ==
    /\ pc = "walk"
    /\ pc' = "exit"
    /\ runErr' = Nil
    /\ UNCHANGED <<r2, cur, note, todo, links, attLog, payload, fnUsed>>
    /\ UNCHANGED <<retryCount, lastErr, Stats, ret, calls, trace, slept, Stats0>>
    /\ UNCHANGED pureVars

\* the values the variables of main.go have when the walk starts
OrchInit ==
    /\ cur = NoFile
    /\ note = NoNote
    /\ todo = << >>
    /\ links = << >>
    /\ attLog = << >>
    /\ payload = NoPayload
    /\ runErr = Nil
    /\ fnUsed = FALSE

\* the values the LabelSpec and FilenameSpec variables keep elsewhere
LblIdle == lblIn = << >> /\ lblOut = NotRun
FnIdle == fnIn = << >> /\ fnOut = NotRun

\* the values the BackoffSpec variables keep under Spec
CbIdle == cbRetry = 0 /\ cbJitter = 1000 /\ cbDelay = -1 /\ cbPrev = -1

\* the values the client's variables have before the first call
ClientInit ==
    /\ pc = "walk"
    /\ retryCount = 0
    /\ lastErr = Nil
    /\ Stats = ZeroStats
    /\ ret = Nil
    /\ calls = 0
    /\ trace = << >>
    /\ slept = 0
    /\ Stats0 = ZeroStats

\* a run with an R2 client: uploads are enabled
Init == ClientInit /\ OrchInit /\ r2 = TRUE /\ CbIdle /\ LblIdle /\ FnIdle

Next ==
    \/ VisitFile \/ AttachStep \/ Format
    \/ Invoke \/ PacingSleep \/ Marshal \/ Iterate \/ Backoff
    \/ Return \/ WalkEnd

Spec == Init /\ [][Next]_vars

\* the thread runs on: a sleep ends and an attempt has an outcome
FairSpec == Spec /\ WF_vars(Next)

(***************************************************************************)
(* calculateBackoff applied to arguments of its own                        *)
(***************************************************************************)
CbInit ==
    /\ ClientInit
    /\ OrchInit
    /\ r2 = FALSE
    /\ LblIdle
    /\ FnIdle
    /\ cbRetry \in 0..MaxRetryArg
    /\ cbJitter \in AllJitters
    /\ cbDelay = -1
    /\ cbPrev = -1

\* calculateBackoff(cbRetry) with the jitter drawn being cbJitter
CbCall ==
    /\ cbDelay = -1
    /\ cbDelay' = calculateBackoff(cbRetry, cbJitter)
    /\ UNCHANGED <<cbRetry, cbJitter, cbPrev>>
    /\ UNCHANGED <<clientVars, orchVars, lblVars, fnVars>>

\* calculateBackoff(cbRetry + 1) with the same jitter
CbCallNext ==
    /\ cbDelay # -1
    /\ cbPrev = -1
    /\ cbRetry < MaxRetryArg
    /\ cbRetry' = cbRetry + 1
    /\ cbPrev' = cbDelay
    /\ cbDelay' = calculateBackoff(cbRetry + 1, cbJitter)
    /\ UNCHANGED cbJitter
    /\ UNCHANGED <<clientVars, orchVars, lblVars, fnVars>>

CbNext == CbCall \/ CbCallNext

BackoffSpec == CbInit /\ [][CbNext]_vars

(***************************************************************************)
(* processMessage applied to one note, the first of a run                  *)
(***************************************************************************)
MsgInit ==
    /\ ClientInit
    /\ CbIdle
    /\ LblIdle
    /\ FnIdle
    /\ r2 \in BOOLEAN
    /\ runErr = Nil
    /\ fnUsed = FALSE
    /\ payload = NoPayload
    /\ links = << >>
    /\ attLog = << >>
    /\ \E p \in MsgPaths : cur = [kind |-> "note", path |-> p]
    /\ note \in MsgNotes
    /\ todo = IF r2 /\ Len(note.atts) > 0 THEN note.atts ELSE << >>

\* processMessage has been entered
MsgStart ==
    /\ pc = "walk"
    /\ cur.kind = "note"
    /\ calls = 0
    /\ pc' = "message"
    /\ UNCHANGED <<retryCount, lastErr, Stats, ret, calls, trace, slept, Stats0>>
    /\ UNCHANGED orchVars
    /\ UNCHANGED pureVars

MsgNext ==
    \/ MsgStart \/ AttachStep \/ Format
    \/ Invoke \/ PacingSleep \/ Marshal \/ Iterate \/ Backoff
    \/ Return

MessageSpec == MsgInit /\ [][MsgNext]_vars

(***************************************************************************)
(* processLabels applied to label lists of its own                         *)
(***************************************************************************)
\* the characters of label names: a letter, the space and the number sign
LabelChars == {"a", " ", "#"}

\* the sequences over S of length n
SeqsOfLen(S, n) == [1..n -> S]

\* the sequences over S of length at most n
SeqsUpTo(S, n) == UNION {SeqsOfLen(S, k) : k \in 0..n}

\* the label names and the label lists processLabels is applied to
LabelNames == SeqsUpTo(LabelChars, MaxNameLen)
LabelLists == SeqsUpTo(LabelNames, MaxLabels)

LblInit ==
    /\ ClientInit
    /\ OrchInit
    /\ r2 = FALSE
    /\ CbIdle
    /\ FnIdle
    /\ lblIn \in LabelLists
    /\ lblOut = NotRun

\* processLabels(lblIn)
LabelCall ==
    /\ lblOut = NotRun
    /\ lblOut' = processLabels(lblIn)
    /\ UNCHANGED lblIn
    /\ UNCHANGED <<clientVars, orchVars, cbVars, fnVars>>

LblNext == LabelCall

LabelSpec == LblInit /\ [][LblNext]_vars

(***************************************************************************)
(* shortenFilename applied to paths of its own                             *)
(***************************************************************************)
\* the parts the names of JSON files are put together from: what comes before
\* a timestamp, the timestamp, and what comes after it
NameHeads == {<< >>, <<"n">>, <<"m", "y", " ", "n", "o", "t", "e", " ">>, <<"a", "-", "l", "o", "n", "g", "-", "n", "o", "t", "e", "-", "n", "a", "m", "e", "-">>}
NameStamps == {<< >>,
               <<"2", "0", "2", "4", "-", "0", "3", "-", "2", "5", "T", "1", "9", "_", "2", "9", "_", "2", "1">>,
               <<"2", "0", "2", "4", "-", "0", "3", "-", "2", "5">>,
               <<"1", "9", "_", "2", "9", "_", "2", "1">>}
NameTails == {<< >>, <<"_", "x">>, <<".", "4", "4", "6", "+", "0", "1", "_", "0", "0">>}
NameDirs == {<< >>, <<"K", "e", "e", "p", "/">>}
JsonExt == <<".", "j", "s", "o", "n">>

\* the paths of JSON files shortenFilename is applied to
FilePaths ==
    {d \o h \o st \o t \o JsonExt :
        d \in NameDirs, h \in NameHeads, st \in NameStamps, t \in NameTails}

FnInit ==
    /\ ClientInit
    /\ OrchInit
    /\ r2 = FALSE
    /\ CbIdle
    /\ LblIdle
    /\ fnIn \in FilePaths
    /\ fnOut = NotRun

\* shortenFilename(fnIn)
FilenameCall ==
    /\ fnOut = NotRun
    /\ fnOut' = shortenFilename(fnIn)
    /\ UNCHANGED fnIn
    /\ UNCHANGED <<clientVars, orchVars, cbVars, lblVars>>

FnNext == FilenameCall

FilenameSpec == FnInit /\ [][FnNext]_vars

(***************************************************************************)
(* Properties                                                              *)
(***************************************************************************)
Reqs == Requests(trace)

\* the call returned before the retry loop's own exits: json.Marshal or
\* http.NewRequest failed
EarlyReturn == pc = "done" /\ ret.msg \in {ErrMarshal, ErrCreate}

\* the call returned through a return or break of the loop that follows an
\* attempt
LoopReturn == pc = "done" /\ ret.msg \notin {ErrMarshal, ErrCreate}

\* every attempt of the current call so far had a transient outcome
AllTransient == \A i \in 1..Len(Reqs) : Reqs[i] = "transient"

\* the attempts before the last one all had a transient outcome
TransientThenOk ==
    /\ Len(Reqs) >= 1
    /\ Last(Reqs) = "ok"
    /\ \A i \in 1..(Len(Reqs) - 1) : Reqs[i] = "transient"

\* C1: a call never makes more than maxRetries + 1 = 6 network attempts, and
\* a call that returned from its retry loop made at least one.
C1_AttemptsBounded ==
    /\ Attempts <= 6
    /\ LoopReturn => Attempts >= 1

\* C1 witness: a call returned after six attempts.
C1_Witness == LoopReturn /\ Attempts = 6

\* C2 as stated: every network attempt, the retries too, comes right after a
\* pacing sleep.
C2_PauseBeforeEveryAttempt ==
    \A i \in 1..Len(trace) :
        trace[i] \in AttemptKinds => (i > 1 /\ trace[i - 1] = "pause")

\* C2 amended: a call sleeps one pacing sleep, drawn from [minPause,
\* maxPause), before anything else; its first attempt comes right after it
\* and every later attempt comes right after a backoff sleep.
C2_PauseOncePerCall ==
    /\ trace # << >> => trace[1] = "pause"
    /\ \A i \in 2..Len(trace) : trace[i] # "pause"
    /\ (trace # << >> /\ Last(trace) = "pause") =>
           (minPause <= slept /\ slept < maxPause)
    /\ \A i \in 1..Len(trace) :
           trace[i] \in AttemptKinds =>
               /\ i > 1
               /\ trace[i - 1] = (IF i = 2 THEN "pause" ELSE "backoff")

\* C2 witness: a retry attempt was made, after a backoff sleep.
C2_Witness ==
    /\ Len(trace) >= 4
    /\ trace[1] = "pause"
    /\ trace[3] = "backoff"
    /\ trace[4] \in AttemptKinds

\* C3: when k transient failures are followed by an Ok response, the call is
\* over with k + 1 attempts, has returned nil, and has added 1 to
\* SuccessfulCalls, 0 to FailedCalls and k to Retries.
C3_SuccessAfterRetries ==
    TransientThenOk =>
        LET k == Len(Reqs) - 1 IN
        /\ k \in 0..5
        /\ pc = "done"
        /\ ret = Nil
        /\ Stats.SuccessfulCalls = Stats0.SuccessfulCalls + 1
        /\ Stats.FailedCalls = Stats0.FailedCalls
        /\ Stats.Retries = Stats0.Retries + k

\* C3 witness: three rate-limit or transport failures, then Ok, in a call
\* that started with statistics of an earlier call.
C3_Witness ==
    /\ TransientThenOk
    /\ Len(Reqs) = 4
    /\ Stats0.Retries > 0
    /\ Stats0.FailedCalls > 0

\* C4: a response with a code other than Ok and TooManyRequests is followed
\* by a backoff sleep when it is the first or second attempt of the call and
\* ends the call as a failure, with that error, when it is the third or a
\* later one.
C4_OtherErrorRetriedTwice ==
    (Reqs # << >> /\ Last(trace) = "otherErr") =>
        IF Attempts <= 2
          THEN pc = "backoff"
          ELSE /\ pc = "done"
               /\ ret # Nil
               /\ ret = lastErr
               /\ Stats.FailedCalls = Stats0.FailedCalls + 1

\* C4 witness: an other-error response was retried on the first attempt and
\* ended the call on the third.
C4_Witness ==
    /\ pc = "done"
    /\ Reqs = <<"otherErr", "transient", "otherErr">>

\* C5: a transient outcome is followed by a backoff sleep as long as fewer
\* than six attempts were made, and a call all of whose attempts were
\* transient returns an error after exactly six attempts.
C5_TransientAlwaysRetried ==
    /\ (Reqs # << >> /\ Last(trace) = "transient") =>
           IF Attempts <= maxRetries THEN pc = "backoff" ELSE pc = "done"
    /\ (LoopReturn /\ AllTransient) =>
           (Attempts = 6 /\ ret # Nil /\ ret.msg # "")

\* C5 witness: a call of six transient attempts has returned.
C5_Witness == LoopReturn /\ AllTransient /\ Attempts = 6 /\ calls = 2

\* the state of the delivery state machine the thread is in
CallState ==
    CASE pc \in {"walk", "message", "ready", "exit"} -> "NoCall"
      [] pc = "idle" -> "Idle"
      [] pc \in {"marshal", "loop"} -> "Attempting"
      [] pc = "backoff" -> "BackoffWait"
      [] pc = "done" -> IF ret = Nil THEN "Success" ELSE "Exhausted"

\* the transitions of the delivery state machine, and those between calls
Transitions ==
    {<<"NoCall", "Idle">>, <<"Success", "NoCall">>, <<"Exhausted", "NoCall">>,
     <<"NoCall", "NoCall">>,
     <<"Idle", "Attempting">>, <<"Attempting", "Attempting">>,
     <<"Attempting", "Success">>, <<"Attempting", "BackoffWait">>,
     <<"BackoffWait", "Attempting">>, <<"Attempting", "Exhausted">>}

\* a step along a transition of the state machine
AllowedStep == <<CallState, CallState'>> \in Transitions

\* C6: a call moves only along the transitions of the state machine, a call
\* that has returned has returned nil or an error, and every call that is
\* entered returns.
C6_StateMachine ==
    /\ [][AllowedStep]_vars
    /\ [](pc = "done" => (ret = Nil \/ (ret # Pending /\ ret.msg # "")))
    /\ (pc = "idle") ~> (pc = "done")

\* C6 witness: a call went through two backoff waits and returned an error.
C6_Witness ==
    /\ CallState = "Exhausted"
    /\ Len(SelectSeq(trace, LAMBDA e : e = "backoff")) = 2

\* the attempt that ends a call: an Ok response, an other-error response on
\* the third or a later attempt, or the sixth failure
FinalAttempt(tr) ==
    /\ Requests(tr) # << >>
    /\ Last(tr) \in AttemptKinds
    /\ \/ Last(tr) = "ok"
       \/ Last(tr) = "otherErr" /\ Len(Requests(tr)) >= 3
       \/ Len(Requests(tr)) = 6

\* C7: a backoff sleep comes right after a failed attempt and is followed by
\* the next pass of the loop; after the attempt that ends a call there is no
\* sleep at all.
C7_NoBackoffAfterLastAttempt ==
    /\ \A i \in 1..Len(trace) :
           trace[i] = "backoff" =>
               /\ i > 1
               /\ trace[i - 1] \in {"transient", "otherErr"}
               /\ ~FinalAttempt(SubSeq(trace, 1, i - 1))
               /\ i = Len(trace) => (pc = "loop" \/ EarlyReturn)
    /\ FinalAttempt(trace) => pc = "done"
    /\ LoopReturn => FinalAttempt(trace)

\* C7 witness: a call ended on the failure that used up its retries, after
\* five backoff sleeps.
C7_Witness ==
    /\ LoopReturn
    /\ Attempts = 6
    /\ Last(trace) = "transient"
    /\ Len(SelectSeq(trace, LAMBDA e : e = "backoff")) = 5

\* C8: calculateBackoff never returns more than maxDelay, and with the same
\* jitter its result for n + 1 is not below its result for n.
C8_BackoffCappedMonotone ==
    /\ cbDelay # -1 => cbDelay <= maxDelay
    /\ cbPrev # -1 => cbPrev <= cbDelay

\* C8 witness: the result grew from one argument to the next and reached the
\* cap.
C8_Witness == cbPrev # -1 /\ cbPrev < cbDelay /\ cbDelay = maxDelay

\* C9: a call that ends on used-up retries or on a terminal response returns
\* the error of its last attempt, and Stats.LastError is that error's message.
C9_ReturnsLastError ==
    (LoopReturn /\ ret # Nil) =>
        /\ ret.msg # ""
        /\ ret.at = Attempts
        /\ ret = lastErr
        /\ Stats.LastError = ret.msg

\* C9 witness: a second call failed on an error other than the one the first
\* call left in Stats.LastError.
C9_Witness ==
    /\ LoopReturn
    /\ ret # Nil
    /\ Attempts >= 2
    /\ Stats0.LastError \notin {"", ret.msg}

\* C10 as stated: every return of AddToDynalist has added one to TotalCalls
\* and to exactly one of SuccessfulCalls and FailedCalls, and has set
\* LastStatus to the outcome of the call.
C10_StatsOnEveryReturn ==
    pc = "done" =>
        /\ Stats.TotalCalls = Stats0.TotalCalls + 1
        /\ \/ /\ Stats.SuccessfulCalls = Stats0.SuccessfulCalls + 1
              /\ Stats.FailedCalls = Stats0.FailedCalls
           \/ /\ Stats.SuccessfulCalls = Stats0.SuccessfulCalls
              /\ Stats.FailedCalls = Stats0.FailedCalls + 1
        /\ Stats.LastStatus = (IF ret = Nil THEN "Success" ELSE "Failed")

\* the file the walk is at is an archived note
AtArchived == cur.kind = "archived"

\* a step in which the walk passes an archived note to the callback
ArchivedVisited == pc = "walk" /\ pc' = "walk" /\ cur'.kind = "archived"

\* C11: for an archived note processMessage is not entered, so that no
\* attachment is resolved or uploaded and AddToDynalist is not called; the
\* step that skips the note leaves Stats and the number of calls as they are
\* and hands the walk on to the next file.
C11_ArchivedSkipped ==
    /\ [](AtArchived =>
            /\ pc \in {"walk", "exit"}
            /\ note = NoNote
            /\ todo = << >> /\ attLog = << >> /\ links = << >>
            /\ payload = NoPayload)
    /\ [][ArchivedVisited =>
            /\ Stats' = Stats
            /\ calls' = calls
            /\ trace' = trace
            /\ runErr' = runErr]_vars

\* C11 witness: an archived note was skipped after a note was delivered, and
\* the walk goes on.
C11_Witness ==
    /\ AtArchived
    /\ pc = "walk"
    /\ Stats.TotalCalls = 1
    /\ Stats.SuccessfulCalls = 1

\* C12: processKeepFolder returns an error only when filepath.Walk itself
\* reported one for a path; after a file that failed to parse and after a
\* delivery that failed the walk is handed the next file, and it ends with
\* nil.
C12_BatchSurvivesNoteFailure ==
    /\ [](pc = "exit" => (runErr = Nil \/ cur.kind = "walkErr"))
    /\ [](cur.kind = "bad" => pc \in {"walk", "exit"})
    /\ [][(pc = "done" /\ pc' # "done") => (pc' = "walk" /\ Stats' = Stats)]_vars

\* C12 witness: a delivery failed, a later note was delivered, and
\* processKeepFolder returned nil.
C12_Witness ==
    /\ pc = "exit"
    /\ runErr = Nil
    /\ Stats.FailedCalls = 1
    /\ Stats.SuccessfulCalls = 1
    /\ Stats.LastStatus = "Success"

\* processMessage has built the payload and has not returned yet
Built == pc \in {"ready", "idle", "marshal", "loop", "backoff", "done"}

\* AddToDynalist has been entered for the note and processMessage has not
\* returned yet
Called == pc \in {"idle", "marshal", "loop", "backoff", "done"}

\* sub occurs in s
Contains(s, sub) == Occurrences(s, sub) # {}

\* the links of the attachments of atts that log records as resolved and
\* uploaded, in the order of atts
LinksOf(atts, log) ==
    LET n == IF Len(log) < Len(atts) THEN Len(log) ELSE Len(atts)
        ok == SelectSeq([i \in 1..n |-> i], LAMBDA i : log[i])
    IN  [k \in 1..Len(ok) |-> Link(atts[ok[k]], UploadUrl(atts[ok[k]]))]

\* the hashtag string and the attachments block of the note in hand
Hashtags == processLabels(note.labels)
Block == IF links # << >> THEN AttachmentsHeader \o Join(links, <<"\n">>) ELSE << >>

\* "Attachments:"
AttachmentsWord == SubSeq(AttachmentsHeader, 3, 14)

\* C13: with uploads enabled, every attachment of the note is tried, whatever
\* happened to the ones before it; the links are those of the attachments
\* that were resolved and uploaded, in the note's order; the payload holds the
\* block of these links, or no "Attachments:" at all when there is none; and
\* AddToDynalist is called once for the note.
C13_FailedAttachmentSkipped ==
    /\ (Built /\ r2) =>
           /\ Len(attLog) = Len(note.atts)
           /\ links = LinksOf(note.atts, attLog)
    /\ Built =>
           /\ links # << >> => Contains(payload.note, Block)
           /\ links = << >> => ~Contains(payload.note, AttachmentsWord)
    /\ Called => calls = 1
    /\ calls <= 1

\* C13 witness: the first attachment failed, the second was uploaded, and the
\* call for the note has returned.
C13_Witness ==
    /\ pc = "done"
    /\ r2
    /\ attLog = <<FALSE, TRUE>>
    /\ Len(links) = 1
    /\ Contains(payload.note, Link(<<"b">>, UploadUrl(<<"b">>)))

\* "#Work #A_B"
WorkAB == <<"#", "W", "o", "r", "k", " ", "#", "A", "_", "B">>

BaseTitle == IF note.title # << >> THEN note.title ELSE shortenFilename(cur.path)

RECURSIVE SplitAt(_, _)
\* the pieces of s between the occurrences of the character c
SplitAt(s, c) ==
    LET at == {i \in 1..Len(s) : s[i] = c} IN
    IF at = {} THEN <<s>>
    ELSE LET i == CHOOSE k \in at : \A j \in at : k <= j
         IN  <<SubSeq(s, 1, i - 1)>> \o SplitAt(SubSeq(s, i + 1, Len(s)), c)

\* hashtag h is label name written after a number sign, with every space of
\* the name replaced
IsHashtagOf(h, name) ==
    /\ Len(h) = Len(name) + 1
    /\ h[1] = "#"
    /\ \A i \in 1..Len(h) : h[i] # " "
    /\ \A i \in 1..Len(name) : name[i] # " " => h[i + 1] = name[i]
    /\ \A i \in 1..Len(name) : name[i] = " " => h[i + 1] = "_"

\* C17: the result of processLabels for the empty list is the empty string;
\* for a list of n labels it is n hashtags with one space between two
\* neighbours, the i-th being the hashtag of the i-th label, equal labels
\* giving equal hashtags.
C17_HashtagsInOrder ==
    lblOut # NotRun =>
        IF lblIn = << >>
          THEN lblOut = << >>
          ELSE LET tags == SplitAt(lblOut, " ") IN
               /\ Len(tags) = Len(lblIn)
               /\ \A i \in 1..Len(lblIn) : IsHashtagOf(tags[i], lblIn[i])

\* C17 witness: the same label, with a space in its name, twice.
C17_Witness ==
    /\ lblOut # NotRun
    /\ Len(lblIn) = 2
    /\ lblIn[1] = lblIn[2]
    /\ lblIn[1] = <<"a", " ">>
    /\ lblOut = <<"#", "a", "_", " ", "#", "a", "_">>

\* the thread is inside AddToDynalist
InAddToDynalist == pc \in {"idle", "marshal", "loop", "backoff"}

\* none of the four counters is lower after the step than before it
CountersKept ==
    /\ Stats'.TotalCalls >= Stats.TotalCalls
    /\ Stats'.SuccessfulCalls >= Stats.SuccessfulCalls
    /\ Stats'.FailedCalls >= Stats.FailedCalls
    /\ Stats'.Retries >= Stats.Retries

\* C18: a step that changes Stats is a step of AddToDynalist; the steps of
\* the walk and of processMessage (a file that is skipped or fails to parse,
\* an attachment, the hashtags and the title, the return to the walk) leave
\* every field of Stats as it is; and no step lowers TotalCalls,
\* SuccessfulCalls, FailedCalls or Retries.
C18_StatsOnlyInClient ==
    /\ [][Stats' # Stats => InAddToDynalist]_vars
    /\ [][~InAddToDynalist => Stats' = Stats]_vars
    /\ [][CountersKept]_vars

\* C18 witness: two calls with retries, one failed and one succeeded, were
\* made, a file that fails to parse was passed after them, and the statistics
\* of both calls are there.
C18_Witness ==
    /\ pc = "walk"
    /\ cur.kind = "bad"
    /\ Stats.TotalCalls = 2
    /\ Stats.FailedCalls = 1
    /\ Stats.SuccessfulCalls = 1
    /\ Stats.Retries >= 3

\* the decimal digits
Digits == {"0", "1", "2", "3", "4", "5", "6", "7", "8", "9"}

\* the shapes of the timestamps, "d" standing for a digit
ShapeDateTime == <<"d", "d", "d", "d", "-", "d", "d", "-", "d", "d", "T",
                   "d", "d", "_", "d", "d", "_", "d", "d">>
ShapeDate == <<"d", "d", "d", "d", "-", "d", "d", "-", "d", "d">>
ShapeTime == <<"d", "d", "_", "d", "d", "_", "d", "d">>

\* s has, from position i on, the shape sh
ShapeAt(s, i, sh) ==
    /\ i + Len(sh) - 1 <= Len(s)
    /\ \A k \in 1..Len(sh) :
           IF sh[k] = "d" THEN s[i + k - 1] \in Digits ELSE s[i + k - 1] = sh[k]

\* s has a substring of one of the three shapes
HasTimestamp(s) ==
    \E sh \in {ShapeDateTime, ShapeDate, ShapeTime} :
        \E i \in 1..Len(s) : ShapeAt(s, i, sh)

\* C19 as stated: the title shortenFilename derives from a filename does not
\* end in the file's extension and has no substring of the shape
\* YYYY-MM-DDTHH_MM_SS, YYYY-MM-DD or HH_MM_SS.
C19_TimestampsRemoved ==
    fnOut # NotRun =>
        /\ ~HasSuffix(fnOut, JsonExt)
        /\ ~HasTimestamp(fnOut)

\* C20: the backoff sleep that follows the k-th failed attempt of a call, k
\* from 1 to 5, is calculateBackoff(k) for one of the jitters, and is neither
\* shorter than minDelay nor longer than maxDelay.
C20_BackoffWithinBounds ==
    (trace # << >> /\ Last(trace) = "backoff") =>
        /\ Attempts \in 1..5
        /\ Attempts = retryCount
        /\ \E j \in Jitters : slept = calculateBackoff(Attempts, j)
        /\ minDelay <= slept
        /\ slept <= maxDelay

\* C20 witness: the shortest backoff sleep, after the first failed attempt
\* with the jitter 0.5, and no longer than the cap.
C20_Witness ==
    /\ trace # << >>
    /\ Last(trace) = "backoff"
    /\ Attempts = 1
    /\ slept = minDelay

\* C21 as stated: a call that returned from its retry loop has added to
\* Stats.Retries the number of its attempts minus one, also when it ended on
\* used-up retries or on a terminal response.
C21_RetriesAreAttemptsLessOne ==
    LoopReturn => Stats.Retries = Stats0.Retries + (Attempts - 1)

\* the sum TotalCalls = SuccessfulCalls + FailedCalls holds of statistics s
Balanced(s) == s.TotalCalls = s.SuccessfulCalls + s.FailedCalls

\* C22: a call in which json.Marshal and http.NewRequest succeed adds one to
\* TotalCalls and one to either SuccessfulCalls or FailedCalls, so that it
\* keeps TotalCalls = SuccessfulCalls + FailedCalls when that held at its
\* entry, as it does before the first call; and when it has returned
\* LastStatus is "Success" if it returned nil and "Failed" if it returned an
\* error.
C22_TotalsBalanced ==
    /\ (calls = 0) => Balanced(Stats)
    /\ LoopReturn =>
           /\ Stats.TotalCalls = Stats0.TotalCalls + 1
           /\ Stats.SuccessfulCalls + Stats.FailedCalls =
                  Stats0.SuccessfulCalls + Stats0.FailedCalls + 1
           /\ Balanced(Stats0) => Balanced(Stats)
           /\ (Stats.LastStatus = "Success") <=> (ret = Nil)
           /\ (Stats.LastStatus = "Failed") <=> (ret # Nil)

\* C22 witness: a failed call was followed by a successful one, and the sum
\* holds after both.
C22_Witness ==
    /\ LoopReturn
    /\ ret = Nil
    /\ Stats0.LastStatus = "Failed"
    /\ Stats.LastStatus = "Success"
    /\ Stats.TotalCalls = 2
    /\ Balanced(Stats)

\* a step in which AddToDynalist is entered
CallEntered == calls' # calls

\* a step in which a request is sent
RequestSent == Len(Requests(trace')) > Len(Requests(trace))

\* C23: a request is sent only right after a sleep of the same call, the
\* pacing sleep for the first request of a call and a backoff sleep for every
\* later one, and every sleep lasts at least minPause; a call is entered only
\* when no call is running, by the one thread there is, and with no request
\* of its own sent yet, so that the last request of a call and the first of
\* the next have the pacing sleep of the next between them.
C23_SleepBetweenRequests ==
    /\ [](\A i \in 1..Len(trace) :
            trace[i] \in AttemptKinds =>
                /\ i > 1
                /\ trace[i - 1] \in SleepKinds
                /\ trace[i - 1] = "pause" <=> Requests(SubSeq(trace, 1, i - 1)) = << >>)
    /\ [](trace # << >> /\ Last(trace) \in SleepKinds => slept >= minPause)
    /\ [][RequestSent =>
            /\ pc = "loop"
            /\ Last(trace) \in SleepKinds
            /\ Len(Requests(trace')) = Len(Requests(trace)) + 1]_vars
    /\ [][CallEntered =>
            /\ pc = "ready"
            /\ pc' = "idle"
            /\ calls' = calls + 1
            /\ trace' = << >>]_vars

\* C23 witness: the first request of a second call is about to be sent after
\* that call's pacing sleep, the first call having ended on its third request.
C23_Witness ==
    /\ calls = 2
    /\ pc = "loop"
    /\ trace = <<"pause">>
    /\ Stats.Retries = 2
    /\ Stats.TotalCalls = 2

\* the file the walk is at is a JSON file that parsed to a note that is not
\* archived
AtLiveNote == cur.kind = "note"

\* processMessage is running for the file the walk is at, and AddToDynalist
\* has not been entered for it yet
BeforeCall == pc \in {"message", "ready"}

\* C24: AddToDynalist is entered only from processMessage, which is entered
\* only by the visit of a file that parsed to a note that is not archived;
\* processMessage then always gets to its call, makes it once, and hands the
\* walk on to the next file when the call returned, with nil or with an
\* error; for any other file the callback returns without a call.
C24_OneCallPerLiveNote ==
    /\ [](~AtLiveNote => pc \in {"walk", "exit"})
    /\ [](BeforeCall => (AtLiveNote /\ trace = << >> /\ ret # Pending))
    /\ [](pc = "message" => (ENABLED AttachStep \/ ENABLED Format))
    /\ [](pc = "ready" => ENABLED Invoke)
    /\ [](Called => AtLiveNote)
    /\ [][CallEntered => (AtLiveNote /\ pc = "ready" /\ calls' = calls + 1)]_vars
    /\ [][(pc # "message" /\ pc' = "message") =>
            (pc = "walk" /\ cur'.kind = "note" /\ calls' = calls)]_vars
    /\ [][(pc = "ready" /\ pc' # "ready") => CallEntered]_vars
    /\ [][(pc = "done" /\ pc' # "done") => (pc' = "walk" /\ calls' = calls)]_vars
    /\ [][(pc = "walk" /\ pc' \in {"walk", "exit"}) => calls' = calls]_vars

\* C24 witness: the delivery of a note failed and the walk was handed the
\* next file with the one call made.
C24_Witness ==
    /\ pc = "walk"
    /\ AtLiveNote
    /\ ret # Nil
    /\ calls = 1
    /\ Stats.FailedCalls = 1
    /\ Stats.TotalCalls = 1

====
